---- MODULE Spec2Model ----
(***************************************************************************)
(* Order checkout of the toko-warga storefront backend (Hono + drizzle on  *)
(* PostgreSQL): POST /api/orders, PATCH /api/orders/:id/status and         *)
(* PUT /api/products/:id, as written in src/src/index.js (the server with  *)
(* the stock validation) and in src/unnamed/part_000 (the server without   *)
(* it).  The database is PostgreSQL at its default isolation level, READ   *)
(* COMMITTED: a statement sees the rows committed before it started plus   *)
(* the writes of its own transaction, and an UPDATE of a row waits for the *)
(* transaction that holds the row's lock.                                  *)
(***************************************************************************)
EXTENDS Integers, Sequences, FiniteSets, TLC

(***************************************************************************)
(* JavaScript numbers.  `total += parseFloat(product.price) * quantity`    *)
(* is IEEE-754 binary64 arithmetic.  A double is modelled exactly, as a    *)
(* sign and a magnitude; the magnitude is a natural number counted in      *)
(* units of 2^-75 and written as its sequence of 15-bit limbs, least       *)
(* significant limb first, without leading zero limbs.  Every double        *)
(* between 0.01 and 2^10 is a whole number of such units, so sums and      *)
(* products are computed exactly and then rounded to 53 significant bits,  *)
(* ties to even, which is what the hardware does.                          *)
(***************************************************************************)
Base == 2^15

RECURSIVE NatLimbs(_)
NatLimbs(n) == IF n = 0 THEN <<>> ELSE <<n % Base>> \o NatLimbs(n \div Base)

RECURSIVE LimbsNat(_)
LimbsNat(a) == IF a = <<>> THEN 0 ELSE Head(a) + Base * LimbsNat(Tail(a))

RECURSIVE Norm(_)
Norm(a) ==
    IF a = <<>> THEN <<>>
    ELSE IF a[Len(a)] = 0 THEN Norm(SubSeq(a, 1, Len(a) - 1))
    ELSE a

Zeros(k) == [i \in 1..k |-> 0]

RECURSIVE AddC(_, _, _)
AddC(a, b, c) ==
    IF a = <<>> /\ b = <<>> THEN (IF c = 0 THEN <<>> ELSE <<c>>)
    ELSE LET x == IF a = <<>> THEN 0 ELSE Head(a)
             y == IF b = <<>> THEN 0 ELSE Head(b)
             s == x + y + c
         IN  <<s % Base>> \o AddC(IF a = <<>> THEN <<>> ELSE Tail(a),
                                  IF b = <<>> THEN <<>> ELSE Tail(b),
                                  s \div Base)

AddLimbs(a, b) == AddC(a, b, 0)

\* a - b for a >= b, with `br` the borrow into the lowest limb
RECURSIVE SubC(_, _, _)
SubC(a, b, br) ==
    IF a = <<>> THEN <<>>
    ELSE LET y == IF b = <<>> THEN 0 ELSE Head(b)
             d == Head(a) - y - br
         IN  <<d % Base>> \o SubC(Tail(a),
                                  IF b = <<>> THEN <<>> ELSE Tail(b),
                                  IF d < 0 THEN 1 ELSE 0)

SubLimbs(a, b) == Norm(SubC(a, b, 0))

RECURSIVE LessFrom(_, _, _)
LessFrom(a, b, i) ==
    IF i = 0 THEN FALSE
    ELSE IF a[i] # b[i] THEN a[i] < b[i]
    ELSE LessFrom(a, b, i - 1)

LessLimbs(a, b) ==
    IF Len(a) # Len(b) THEN Len(a) < Len(b) ELSE LessFrom(a, b, Len(a))

\* a * q + c for a small multiplier q <= Base
RECURSIVE MulC(_, _, _)
MulC(a, q, c) ==
    IF a = <<>> THEN (IF c = 0 THEN <<>> ELSE <<c>>)
    ELSE LET s == Head(a) * q + c
         IN  <<s % Base>> \o MulC(Tail(a), q, s \div Base)

MulSmall(a, q) == IF q = 0 THEN <<>> ELSE MulC(a, q, 0)

\* quotient and remainder of a by the small divisor d <= Base
RECURSIVE DivRemC(_, _)
DivRemC(a, d) ==
    IF a = <<>> THEN [q |-> <<>>, r |-> 0]
    ELSE LET hi  == DivRemC(Tail(a), d)
             cur == Base * hi.r + Head(a)
         IN  [q |-> <<cur \div d>> \o hi.q, r |-> cur % d]

DivRem(a, d) == LET dr == DivRemC(a, d) IN [q |-> Norm(dr.q), r |-> dr.r]

\* number of significant bits
BitLen(a) ==
    IF a = <<>> THEN 0
    ELSE 15 * (Len(a) - 1)
         + (CHOOSE k \in 1..15 : 2^(k-1) <= a[Len(a)] /\ a[Len(a)] < 2^k)

\* floor(a / 2^n) and whether anything was cut off
ShrSticky(a, n) ==
    LET w  == n \div 15
        dr == DivRem(SubSeq(a, w + 1, Len(a)), 2^(n % 15))
    IN  [q |-> dr.q, cut |-> dr.r # 0 \/ \E i \in 1..w : i <= Len(a) /\ a[i] # 0]

\* a * 2^n
Shl(a, n) ==
    IF a = <<>> THEN <<>> ELSE Zeros(n \div 15) \o MulSmall(a, 2^(n % 15))

\* round to nearest, ties to even, keeping 53 significant bits; `sticky`
\* says that the exact value lies strictly above a
Round53(a, sticky) ==
    IF BitLen(a) <= 53 THEN a
    ELSE LET drop == BitLen(a) - 53
             t    == ShrSticky(a, drop - 1)
             h    == DivRem(t.q, 2)
             up   == h.r = 1 /\ (sticky \/ t.cut \/ h.q[1] % 2 = 1)
         IN  Shl(IF up THEN AddLimbs(h.q, <<1>>) ELSE h.q, drop)

Abs(n) == IF n < 0 THEN -n ELSE n

Double(neg, mag) == [neg |-> neg /\ mag # <<>>, mag |-> mag]

FZero == Double(FALSE, <<>>)

\* parseFloat of the decimal string of a price of `cents` hundredths
parseFloat(cents) ==
    LET dr == DivRem(Shl(NatLimbs(Abs(cents)), 75), 100)
    IN  Double(cents < 0, Round53(dr.q, dr.r # 0))

\* x * q for a double x and an integer-valued number q
FMul(x, q) == Double(x.neg # (q < 0), Round53(MulSmall(x.mag, Abs(q)), FALSE))

\* x + y
FAdd(x, y) ==
    IF x.neg = y.neg THEN Double(x.neg, Round53(AddLimbs(x.mag, y.mag), FALSE))
    ELSE IF LessLimbs(x.mag, y.mag)
         THEN Double(y.neg, Round53(SubLimbs(y.mag, x.mag), FALSE))
         ELSE Double(x.neg, Round53(SubLimbs(x.mag, y.mag), FALSE))

\* the integer nearest to 100 * |x|
NearestCents(x) ==
    LET t == ShrSticky(MulSmall(x.mag, 100), 74)
    IN  LimbsNat(DivRem(t.q, 2).q) + DivRem(t.q, 2).r

(***************************************************************************)
(* Number.prototype.toString gives the shortest decimal that parses back   *)
(* to the same double.  That decimal has at most two fraction digits       *)
(* exactly when the double is the parseFloat of an amount in hundredths,   *)
(* and then it is that amount; otherwise it is a longer decimal, kept here *)
(* as the double it denotes.                                               *)
(***************************************************************************)
toString(x) ==
    LET c == NearestCents(x)
    IN  IF parseFloat(c).mag = x.mag
        THEN [kind |-> "cents", cents |-> IF x.neg THEN -c ELSE c, float |-> FZero]
        ELSE [kind |-> "float", cents |-> 0, float |-> x]

(***************************************************************************)
(* Bounds of the model.                                                    *)
(***************************************************************************)
\* checkouts started in one behaviour
MaxOrders == 2
\* administrator requests (PATCH status, PUT product) in one behaviour
MaxAdmin == 1

\* the request workers that run POST /api/orders concurrently
Clients == {"A", "B"}

Item(p, q) == [productId |-> p, quantity |-> q]

\* the rows of the products table when the server starts (price in
\* hundredths: 0.10 and 5.50)
InitProducts == (1 :> [price |-> 10, stock |-> 5]) @@ (2 :> [price |-> 550, stock |-> 2])

\* a product id that no row carries
MissingId == 3

\* the `items` arrays that requests carry
Carts ==
    { <<>>,
      <<Item(1, 3)>>,
      <<Item(1, 2), Item(2, 3)>>,
      <<Item(1, -1)>>,
      <<Item(1, 1), Item(MissingId, 1)>> }

\* the price and stock fields that a PUT request carries
PutBodies == {[price |-> 1000, stock |-> 5], [price |-> 10, stock |-> 0]}

Statuses == {"pending", "processing", "completed", "cancelled"}

\* the status a row of orders gets when the insert names none (the column
\* default of src/db/schema.js)
DefaultStatus == "pending"

(***************************************************************************)
(* State.  products, orders and orderItems are the committed tables;       *)
(* nextOrderId is the serial sequence of orders.id (it is not rolled       *)
(* back); tx[c] is the request of worker c: its position in the handler,   *)
(* its locals, and the uncommitted writes of its transaction; admin counts  *)
(* the administrator requests served and req is the administrator request  *)
(* being served or served last; nextProductId is the serial sequence of    *)
(* products.id.                                                            *)
(***************************************************************************)
VARIABLES products, orders, orderItems, nextOrderId, tx, admin, req, nextProductId

vars == <<products, orders, orderItems, nextOrderId, tx, admin, req, nextProductId>>

\* the quantity of product p in a list of order items
RECURSIVE SumQty(_, _)
SumQty(items, p) ==
    IF items = <<>> THEN 0
    ELSE (IF Head(items).productId = p THEN Head(items).quantity ELSE 0)
         + SumQty(Tail(items), p)

NoRow == [found |-> FALSE, price |-> 0, stock |-> 0]
Row(r) == [found |-> TRUE, price |-> r.price, stock |-> r.stock]

NoWrites == [p \in {} |-> 0]

\* keys are the members of the JSON body of the response
NoResponse == [status |-> 0, success |-> FALSE, orderId |-> 0, keys |-> {}]

\* `totalAmount: "0"`
ZeroAmount == [kind |-> "cents", cents |-> 0, float |-> FZero]

\* no administrator request yet
IdleReq == [route |-> "none", header |-> <<>>, code |-> 0, pc |-> "idle", id |-> 0, status |-> ""]

IdleTx ==
    [pc |-> "idle", file |-> "index.js", items |-> <<>>, i |-> 1, newOrder |-> 0,
     header |-> [totalAmount |-> ZeroAmount, status |-> "pending"],
     total |-> FZero, product |-> NoRow, reads |-> <<>>, newItems |-> <<>>,
     writes |-> NoWrites, before |-> <<>>, response |-> NoResponse]

Init ==
    /\ products = InitProducts
    /\ orders = [o \in {} |-> 0]
    /\ orderItems = <<>>
    /\ nextOrderId = 1
    /\ tx = [c \in Clients |-> IdleTx]
    /\ admin = 0
    /\ req = IdleReq
    /\ nextProductId = MissingId

\* the row of product p as a statement of transaction c sees it
Visible(c, p) ==
    IF p \in DOMAIN tx[c].writes
    THEN [found |-> TRUE, price |-> products[p].price, stock |-> tx[c].writes[p]]
    ELSE IF p \in DOMAIN products THEN Row(products[p]) ELSE NoRow

\* the row of product p is locked by a transaction other than c
LockedByOther(c, p) == \E d \in Clients \ {c} : p \in DOMAIN tx[d].writes

(***************************************************************************)
(* The constraint of orderItems.productId on products.id ("agar tidak      *)
(* error constraint"): a row of orderItems can be inserted only for a      *)
(* product that exists, a product that committed order items refer to      *)
(* cannot be deleted, and an order item inserted by an open transaction    *)
(* holds a key-share lock on its product row until the transaction ends.   *)
(***************************************************************************)
\* the mutant of Referenced: no constraint
ReferencedNever(id) == FALSE

References(id) == id \in DOMAIN products

Referenced(id) == \E i \in DOMAIN orderItems : orderItems[i].productId = id

KeyShareLocked(id) ==
    \E c \in Clients : \E i \in DOMAIN tx[c].newItems : tx[c].newItems[i].productId = id

(***************************************************************************)
(* POST /api/orders of src/src/index.js                                    *)
(***************************************************************************)
\* StartCheckout inserting the header with the status processing
StartCheckoutProcessing(c, items) ==
    /\ tx[c].pc \in {"idle", "done"}
    /\ nextOrderId <= MaxOrders
    /\ nextOrderId' = nextOrderId + 1
    /\ tx' = [tx EXCEPT ![c] = [IdleTx EXCEPT
                 !.items = items,
                 !.newOrder = nextOrderId,
                 !.header = [totalAmount |-> ZeroAmount, status |-> "processing"],
                 !.total = FZero,
                 !.pc = IF items = <<>> THEN "updateTotal" ELSE "findProduct"]]
    /\ UNCHANGED <<products, orders, orderItems, admin, req, nextProductId>>

\* the request arrives, its body is parsed, db.transaction begins and
\* 1. tx.insert(schema.orders) ... returning(); let total = 0
StartCheckout(c, items) ==
    /\ tx[c].pc \in {"idle", "done"}
    /\ nextOrderId <= MaxOrders
    /\ nextOrderId' = nextOrderId + 1
    /\ tx' = [tx EXCEPT ![c] = [IdleTx EXCEPT
                 !.items = items,
                 !.newOrder = nextOrderId,
                 !.header = [totalAmount |-> ZeroAmount, status |-> "pending"],
                 !.total = FZero,
                 !.pc = IF items = <<>> THEN "updateTotal" ELSE "findProduct"]]
    /\ UNCHANGED <<products, orders, orderItems, admin, req, nextProductId>>

\* FindProduct without the comparison of stock and quantity
FindProductNoStockCheck(c) ==
    /\ tx[c].pc = "findProduct"
    /\ tx[c].file = "index.js"
    /\ LET item    == tx[c].items[tx[c].i]
           product == Visible(c, item.productId)
       IN  tx' = IF ~product.found
                 THEN [tx EXCEPT ![c].product = product,
                                 ![c].reads = Append(@, product),
                                 ![c].pc = "rollback"]
                 ELSE [tx EXCEPT ![c].product = product,
                                 ![c].reads = Append(@, product),
                                 ![c].total = FAdd(@, FMul(parseFloat(product.price), item.quantity)),
                                 ![c].pc = "insertItem"]
    /\ UNCHANGED <<products, orders, orderItems, nextOrderId, admin, req, nextProductId>>

\* FindProduct that goes on when the lookup finds no row
FindProductNoNullCheck(c) ==
    /\ tx[c].pc = "findProduct"
    /\ tx[c].file = "index.js"
    /\ LET item    == tx[c].items[tx[c].i]
           product == Visible(c, item.productId)
       IN  tx' = IF product.found /\ product.stock < item.quantity
                 THEN [tx EXCEPT ![c].product = product,
                                 ![c].reads = Append(@, product),
                                 ![c].pc = "rollback"]
                 ELSE [tx EXCEPT ![c].product = product,
                                 ![c].reads = Append(@, product),
                                 ![c].total = FAdd(@, FMul(parseFloat(product.price), item.quantity)),
                                 ![c].pc = "insertItem"]
    /\ UNCHANGED <<products, orders, orderItems, nextOrderId, admin, req, nextProductId>>

\* 2. findFirst, the stock check and the running total
FindProduct(c) ==
    /\ tx[c].pc = "findProduct"
    /\ tx[c].file = "index.js"
    /\ LET item    == tx[c].items[tx[c].i]
           product == Visible(c, item.productId)
       IN  tx' = IF ~product.found \/ product.stock < item.quantity
                 THEN [tx EXCEPT ![c].product = product,
                                 ![c].reads = Append(@, product),
                                 ![c].pc = "rollback"]
                 ELSE [tx EXCEPT ![c].product = product,
                                 ![c].reads = Append(@, product),
                                 ![c].total = FAdd(@, FMul(parseFloat(product.price), item.quantity)),
                                 ![c].pc = "insertItem"]
    /\ UNCHANGED <<products, orders, orderItems, nextOrderId, admin, req, nextProductId>>

\* tx.insert(schema.orderItems); the insert fails when the product row was
\* deleted after the findFirst
InsertItem(c) ==
    /\ tx[c].pc = "insertItem"
    /\ LET item == tx[c].items[tx[c].i]
       IN  tx' = IF References(item.productId)
                 THEN [tx EXCEPT ![c].newItems =
                               Append(@, [orderId |-> tx[c].newOrder,
                                          productId |-> item.productId,
                                          quantity |-> item.quantity,
                                          priceAtTime |-> tx[c].product.price]),
                            ![c].pc = "updateStock"]
                 ELSE [tx EXCEPT ![c].pc = "rollback"]
    /\ UNCHANGED <<products, orders, orderItems, nextOrderId, admin, req, nextProductId>>

\* UpdateStock with db.update in place of tx.update: the statement commits
\* on its own
UpdateStockAutocommit(c) ==
    /\ tx[c].pc = "updateStock"
    /\ LET item == tx[c].items[tx[c].i]
       IN  /\ ~LockedByOther(c, item.productId)
           /\ products' = [p \in DOMAIN products |->
                             IF p = item.productId
                             THEN [products[p] EXCEPT !.stock = tx[c].product.stock - item.quantity]
                             ELSE products[p]]
           /\ tx' = [tx EXCEPT ![c].before = Append(@, Visible(c, item.productId)),
                                ![c].i = @ + 1,
                                ![c].pc = IF tx[c].i < Len(tx[c].items)
                                          THEN "findProduct" ELSE "updateTotal"]
    /\ UNCHANGED <<orders, orderItems, nextOrderId, admin, req, nextProductId>>

\* tx.update(schema.products).set({ stock: product.stock - item.quantity });
\* the UPDATE waits while another transaction holds the row's lock
UpdateStock(c) ==
    /\ tx[c].pc = "updateStock"
    /\ LET item == tx[c].items[tx[c].i]
       IN  /\ ~LockedByOther(c, item.productId)
           /\ tx' = [tx EXCEPT ![c].writes =
                                   IF item.productId \in DOMAIN products
                                   THEN (item.productId :> (tx[c].product.stock - item.quantity)) @@ @
                                   ELSE @,
                                ![c].before = Append(@, Visible(c, item.productId)),
                                ![c].i = @ + 1,
                                ![c].pc = IF tx[c].i < Len(tx[c].items)
                                          THEN "findProduct" ELSE "updateTotal"]
    /\ UNCHANGED <<products, orders, orderItems, nextOrderId, admin, req, nextProductId>>

\* 3. tx.update(schema.orders).set({ totalAmount: total.toString() })
UpdateTotal(c) ==
    /\ tx[c].pc = "updateTotal"
    /\ tx' = [tx EXCEPT ![c].header.totalAmount = toString(tx[c].total),
                        ![c].pc = "commit"]
    /\ UNCHANGED <<products, orders, orderItems, nextOrderId, admin, req, nextProductId>>

\* the callback returns newOrder.id, the transaction commits and the
\* handler answers { success: true, orderId }
Commit(c) ==
    /\ tx[c].pc = "commit"
    /\ orders' = (tx[c].newOrder :> tx[c].header) @@ orders
    /\ orderItems' = orderItems \o tx[c].newItems
    /\ products' = [p \in DOMAIN products |->
                      IF p \in DOMAIN tx[c].writes
                      THEN [products[p] EXCEPT !.stock = tx[c].writes[p]]
                      ELSE products[p]]
    /\ tx' = [tx EXCEPT ![c] = [IdleTx EXCEPT !.pc = "done",
                                              !.response = [status |-> 200, success |-> TRUE,
                                                            orderId |-> tx[c].newOrder,
                                                            keys |-> {"success", "orderId"}]]]
    /\ UNCHANGED <<nextOrderId, admin, req, nextProductId>>

\* the callback threw: the transaction is rolled back and the handler
\* answers { success: false, message } with status 400
Rollback(c) ==
    /\ tx[c].pc = "rollback"
    /\ tx' = [tx EXCEPT ![c] = [IdleTx EXCEPT !.pc = "done",
                                              !.response = [status |-> 400, success |-> FALSE,
                                                            orderId |-> 0,
                                                            keys |-> {"success", "message"}]]]
    /\ UNCHANGED <<products, orders, orderItems, nextOrderId, admin, req, nextProductId>>

(***************************************************************************)
(* Failures of the transaction layer.  Any awaited statement of the        *)
(* callback, and the COMMIT itself, can reject (statement error, timeout,  *)
(* lost connection, deadlock victim); the rejection leaves the callback    *)
(* through db.transaction, which rolls back, to the handler's catch.       *)
(***************************************************************************)
\* the insert of the header rejects; the serial id it drew is not given back
HeaderInsertFails(c, items) ==
    /\ tx[c].pc \in {"idle", "done"}
    /\ nextOrderId <= MaxOrders
    /\ nextOrderId' = nextOrderId + 1
    /\ tx' = [tx EXCEPT ![c] = [IdleTx EXCEPT !.items = items, !.pc = "rollback"]]
    /\ UNCHANGED <<products, orders, orderItems, admin, req, nextProductId>>

\* the statement that request c is about to run, or its COMMIT, rejects
TxFail(c) ==
    /\ tx[c].pc \in {"findProduct", "insertItem", "updateStock", "updateTotal", "commit"}
    /\ tx' = [tx EXCEPT ![c].pc = "rollback"]
    /\ UNCHANGED <<products, orders, orderItems, nextOrderId, admin, req, nextProductId>>

(***************************************************************************)
(* POST /api/orders of src/unnamed/part_000: the header is inserted        *)
(* without a status and the loop has no stock check; a missing product     *)
(* makes `prod.price` throw a TypeError.                                   *)
(***************************************************************************)
StartCheckoutPart000(c, items) ==
    /\ tx[c].pc \in {"idle", "done"}
    /\ nextOrderId <= MaxOrders
    /\ nextOrderId' = nextOrderId + 1
    /\ tx' = [tx EXCEPT ![c] = [IdleTx EXCEPT
                 !.file = "part_000",
                 !.items = items,
                 !.newOrder = nextOrderId,
                 !.header = [totalAmount |-> ZeroAmount, status |-> DefaultStatus],
                 !.total = FZero,
                 !.pc = IF items = <<>> THEN "updateTotal" ELSE "findProduct"]]
    /\ UNCHANGED <<products, orders, orderItems, admin, req, nextProductId>>

FindProductPart000(c) ==
    /\ tx[c].pc = "findProduct"
    /\ tx[c].file = "part_000"
    /\ LET item == tx[c].items[tx[c].i]
           prod == Visible(c, item.productId)
       IN  tx' = IF ~prod.found
                 THEN [tx EXCEPT ![c].product = prod,
                                 ![c].reads = Append(@, prod),
                                 ![c].pc = "rollback"]
                 ELSE [tx EXCEPT ![c].product = prod,
                                 ![c].reads = Append(@, prod),
                                 ![c].total = FAdd(@, FMul(parseFloat(prod.price), item.quantity)),
                                 ![c].pc = "insertItem"]
    /\ UNCHANGED <<products, orders, orderItems, nextOrderId, admin, req, nextProductId>>

(***************************************************************************)
(* authMiddleware.  An Authorization header is the sequence of the words   *)
(* that `split(' ')` gives, <<>> when the request has no such header; the  *)
(* token is the second word.                                               *)
(***************************************************************************)
\* the header of a logged-in administrator
AdminHeader == <<"Bearer", "valid">>

\* the Authorization headers that requests carry
Headers == {<<>>, AdminHeader, <<"Bearer", "expired">>, <<"valid">>}

\* jwt.verify(token, JWT_SECRET) returns without throwing
jwtVerify(token) == token = "valid"

\* authMiddleware without the return on a missing header
authMiddlewareNoReturn(header) ==
    IF header = <<>> THEN 0
    ELSE IF Len(header) >= 2 /\ jwtVerify(header[2]) THEN 0
    ELSE 403

\* the status the middleware answers with, 0 when it calls next()
authMiddleware(header) ==
    IF header = <<>> THEN 401
    ELSE IF Len(header) >= 2 /\ jwtVerify(header[2]) THEN 0
    ELSE 403

\* the request as the middleware answered it
Rejected(route, header) ==
    [IdleReq EXCEPT !.route = route, !.header = header, !.code = authMiddleware(header)]

(***************************************************************************)
(* The status column of orders: the spec gives it the four values of the   *)
(* workflow; an UPDATE with any other value is refused by the database.    *)
(***************************************************************************)
\* the mutant of StatusColumnAccepts: a text column
StatusColumnAcceptsAny(status) == TRUE

StatusColumnAccepts(status) == status \in Statuses

\* the status values that PATCH requests carry
StatusInputs == Statuses \cup {"shipped"}

(***************************************************************************)
(* PATCH /api/orders/:id/status                                            *)
(***************************************************************************)
\* SetStatus that puts the quantities of a cancelled order back in stock
SetStatusRestocking(id, status) ==
    /\ admin < MaxAdmin
    /\ admin' = admin + 1
    /\ orders' = [o \in DOMAIN orders |->
                    IF o = id THEN [orders[o] EXCEPT !.status = status] ELSE orders[o]]
    /\ products' = [p \in DOMAIN products |->
                      IF status = "cancelled" /\ id \in DOMAIN orders
                      THEN [products[p] EXCEPT !.stock =
                               @ + SumQty(SelectSeq(orderItems, LAMBDA it : it.orderId = id), p)]
                      ELSE products[p]]
    /\ UNCHANGED <<orderItems, nextOrderId, tx>>

SetStatus(id, status) ==
    /\ admin < MaxAdmin
    /\ admin' = admin + 1
    /\ orders' = [o \in DOMAIN orders |->
                    IF o = id /\ StatusColumnAccepts(status)
                    THEN [orders[o] EXCEPT !.status = status] ELSE orders[o]]
    /\ UNCHANGED <<products, orderItems, nextOrderId, tx>>

(***************************************************************************)
(* PUT /api/products/:id; its UPDATE waits for the row's lock              *)
(***************************************************************************)
\* UpdateProduct that also rewrites the price of the product's order items
UpdateProductRepricing(id, price, stock) ==
    /\ admin < MaxAdmin
    /\ \A c \in Clients : id \notin DOMAIN tx[c].writes
    /\ admin' = admin + 1
    /\ products' = [p \in DOMAIN products |->
                      IF p = id THEN [price |-> price, stock |-> stock] ELSE products[p]]
    /\ orderItems' = [i \in DOMAIN orderItems |->
                        IF orderItems[i].productId = id
                        THEN [orderItems[i] EXCEPT !.priceAtTime = price]
                        ELSE orderItems[i]]
    /\ UNCHANGED <<orders, nextOrderId, tx>>

UpdateProduct(id, price, stock) ==
    /\ admin < MaxAdmin
    /\ \A c \in Clients : id \notin DOMAIN tx[c].writes
    /\ admin' = admin + 1
    /\ products' = [p \in DOMAIN products |->
                      IF p = id THEN [price |-> price, stock |-> stock] ELSE products[p]]
    /\ UNCHANGED <<orders, orderItems, nextOrderId, tx>>

(***************************************************************************)
(* DELETE /api/products/:id: three statements, each committed on its own   *)
(***************************************************************************)
\* authMiddleware, then db.query.products.findFirst;
\* `if (!product) return c.json({ success: false })`
DeleteFind(header, id) ==
    /\ req.pc = "idle"
    /\ admin < MaxAdmin
    /\ admin' = admin + 1
    /\ req' = IF authMiddleware(header) # 0
              THEN Rejected("delete", header)
              ELSE IF id \in DOMAIN products
              THEN [IdleReq EXCEPT !.route = "delete", !.header = header, !.id = id,
                                   !.pc = "deleteItems"]
              ELSE [IdleReq EXCEPT !.route = "delete", !.header = header, !.id = id,
                                   !.code = 200]
    /\ UNCHANGED <<products, orders, orderItems, nextOrderId, tx, nextProductId>>

\* db.delete(schema.orderItems).where(eq(schema.orderItems.productId, id))
DeleteItems ==
    /\ req.pc = "deleteItems"
    /\ orderItems' = SelectSeq(orderItems, LAMBDA it : it.productId # req.id)
    /\ req' = [req EXCEPT !.pc = "deleteProduct"]
    /\ UNCHANGED <<products, orders, nextOrderId, tx, admin, nextProductId>>

\* db.delete(schema.products).where(eq(schema.products.id, id)); the DELETE
\* waits for the locks on the row and fails (status 500) when committed
\* order items refer to the product
DeleteRow ==
    /\ req.pc = "deleteProduct"
    /\ \A c \in Clients : req.id \notin DOMAIN tx[c].writes
    /\ ~KeyShareLocked(req.id)
    /\ IF Referenced(req.id)
       THEN /\ req' = [req EXCEPT !.pc = "idle", !.code = 500]
            /\ UNCHANGED products
       ELSE /\ req' = [req EXCEPT !.pc = "idle", !.code = 200]
            /\ products' = [p \in DOMAIN products \ {req.id} |-> products[p]]
    /\ UNCHANGED <<orders, orderItems, nextOrderId, tx, admin, nextProductId>>

DeleteProduct ==
    \/ \E id \in DOMAIN InitProducts \cup {MissingId} : DeleteFind(AdminHeader, id)
    \/ DeleteItems
    \/ DeleteRow

(***************************************************************************)
(* POST /api/products (without the upload of the image)                    *)
(***************************************************************************)
CreateProduct(price, stock) ==
    /\ admin < MaxAdmin
    /\ admin' = admin + 1
    /\ products' = (nextProductId :> [price |-> price, stock |-> stock]) @@ products
    /\ nextProductId' = nextProductId + 1
    /\ UNCHANGED <<orders, orderItems, nextOrderId, tx>>

(***************************************************************************)
(* The administrator routes behind authMiddleware                          *)
(***************************************************************************)
\* the middleware answers 401 or 403 and the handler does not run
Reject(route, header) ==
    /\ req.pc = "idle"
    /\ admin < MaxAdmin
    /\ authMiddleware(header) # 0
    /\ admin' = admin + 1
    /\ req' = Rejected(route, header)
    /\ UNCHANGED <<products, orders, orderItems, nextOrderId, tx, nextProductId>>

Served(route, header, id, code) ==
    [IdleReq EXCEPT !.route = route, !.header = header, !.id = id, !.code = code]

\* app.patch('/api/orders/:id/status', authMiddleware, ...); a value that
\* the status column refuses makes the UPDATE throw (status 500)
Patch(header, id, status) ==
    /\ req.pc = "idle"
    /\ authMiddleware(header) = 0
    /\ SetStatus(id, status)
    /\ req' = [Served("patch", header, id, IF StatusColumnAccepts(status) THEN 200 ELSE 500)
                  EXCEPT !.status = status]
    /\ UNCHANGED nextProductId

\* app.put('/api/products/:id', authMiddleware, ...)
Put(header, id, body) ==
    /\ req.pc = "idle"
    /\ authMiddleware(header) = 0
    /\ UpdateProduct(id, body.price, body.stock)
    /\ req' = Served("put", header, id, 200)
    /\ UNCHANGED nextProductId

\* app.post('/api/products', authMiddleware, ...)
Post(header, body) ==
    /\ req.pc = "idle"
    /\ authMiddleware(header) = 0
    /\ CreateProduct(body.price, body.stock)
    /\ req' = Served("post", header, nextProductId, 200)

\* app.get('/api/admin/orders', authMiddleware, ...)
GetOrders(header) ==
    /\ req.pc = "idle"
    /\ admin < MaxAdmin
    /\ authMiddleware(header) = 0
    /\ admin' = admin + 1
    /\ req' = Served("get", header, 0, 200)
    /\ UNCHANGED <<products, orders, orderItems, nextOrderId, tx, nextProductId>>

AdminRoutes == {"patch", "put", "post", "get"}

\* administrator requests with any Authorization header
AdminRequest ==
    \E header \in Headers :
        \/ \E route \in AdminRoutes : Reject(route, header)
        \/ \E id \in 1..MaxOrders, status \in StatusInputs : Patch(header, id, status)
        \/ \E id \in DOMAIN InitProducts \cup {MissingId}, body \in PutBodies : Put(header, id, body)
        \/ \E body \in PutBodies : Post(header, body)
        \/ GetOrders(header)
        \/ \E id \in DOMAIN InitProducts \cup {MissingId} : DeleteFind(header, id)

CheckoutStep(c) ==
    \/ FindProduct(c)
    \/ InsertItem(c)
    \/ UpdateStock(c)
    \/ UpdateTotal(c)
    \/ Commit(c)
    \/ Rollback(c)

\* the checkouts of src/src/index.js alone
NextCheckout ==
    \E c \in Clients :
        \/ \E items \in Carts : StartCheckout(c, items)
        \/ CheckoutStep(c)

Admin ==
    /\ \/ \E id \in 1..MaxOrders, status \in StatusInputs : SetStatus(id, status)
       \/ \E id \in DOMAIN InitProducts \cup {MissingId}, body \in PutBodies :
              UpdateProduct(id, body.price, body.stock)
    /\ UNCHANGED <<req, nextProductId>>

\* the server of src/src/index.js
Next == NextCheckout \/ Admin

\* either server's handlers
NextRepo ==
    \/ Next
    \/ \E c \in Clients :
           \/ \E items \in Carts : StartCheckoutPart000(c, items)
           \/ FindProductPart000(c)

\* the checkouts of src/unnamed/part_000 alone
NextPart000 ==
    \E c \in Clients :
        \/ \E items \in Carts : StartCheckoutPart000(c, items)
        \/ FindProductPart000(c)
        \/ InsertItem(c)
        \/ UpdateStock(c)
        \/ UpdateTotal(c)
        \/ Commit(c)
        \/ Rollback(c)

\* the checkouts of src/src/index.js and the deletion of products
NextDelete == NextCheckout \/ DeleteProduct

\* the server of src/src/index.js with its middleware and all its routes
NextAuth == NextCheckout \/ AdminRequest \/ DeleteItems \/ DeleteRow

(***************************************************************************)
(* Row locks taken in opposite order.  The UPDATE of request c waits for   *)
(* the transaction that holds the row's lock; when the two wait for each   *)
(* other the database's deadlock detector makes the UPDATE of one of them  *)
(* reject, which rolls that transaction back.                              *)
(***************************************************************************)
\* carts that update products 1 and 2 in opposite order, and a short one
LiveCarts == {<<Item(1, 1), Item(2, 1)>>, <<Item(2, 1), Item(1, 1)>>, <<Item(2, 3)>>}

\* the UPDATE of request c waits for a row lock of request d
WaitsFor(c, d) ==
    /\ c # d
    /\ tx[c].pc = "updateStock"
    /\ tx[c].items[tx[c].i].productId \in DOMAIN tx[d].writes

\* the detector never fires
DeadlockAbortNever(c) == FALSE /\ UNCHANGED vars

\* `await tx.update(schema.products)` rejects with "deadlock detected"
DeadlockAbort(c) ==
    /\ \E d \in Clients : WaitsFor(c, d) /\ WaitsFor(d, c)
    /\ tx' = [tx EXCEPT ![c].pc = "rollback"]
    /\ UNCHANGED <<products, orders, orderItems, nextOrderId, admin, req, nextProductId>>

\* the steps that a started request takes on its own
LiveStep(c) == CheckoutStep(c) \/ DeadlockAbort(c)

NextLive ==
    \E c \in Clients :
        \/ \E items \in LiveCarts : StartCheckout(c, items)
        \/ LiveStep(c)

\* Every started request keeps being scheduled; requests need not arrive.
\* FindProduct(c) and UpdateTotal(c) are enabled exactly while the request is
\* at that statement and each leaves it, so their weak fairness is that the
\* request is infinitely often not there.
Scheduled(c) ==
    /\ []<>(tx[c].pc # "findProduct")
    /\ WF_vars(InsertItem(c))
    /\ WF_vars(UpdateStock(c))
    /\ []<>(tx[c].pc # "updateTotal")
    /\ WF_vars(Commit(c))
    /\ WF_vars(Rollback(c))
    /\ WF_vars(DeadlockAbort(c))

SpecLive == Init /\ [][NextLive]_vars /\ \A c \in Clients : Scheduled(c)

\* the checkouts of src/src/index.js with failures of the transaction layer
NextFail ==
    \/ NextCheckout
    \/ \E c \in Clients :
           \/ \E items \in Carts : HeaderInsertFails(c, items)
           \/ TxFail(c)

SpecCheckout == Init /\ [][NextCheckout]_vars
SpecFail == Init /\ [][NextFail]_vars
SpecAuth == Init /\ [][NextAuth]_vars
SpecDelete == Init /\ [][NextDelete]_vars
SpecPart000 == Init /\ [][NextPart000]_vars
Spec == Init /\ [][Next]_vars
SpecRepo == Init /\ [][NextRepo]_vars

TypeOK ==
    /\ nextOrderId \in 1..(MaxOrders + 1)
    /\ admin \in 0..MaxAdmin
    /\ DOMAIN products \subseteq 1..(nextProductId - 1)
    /\ \A c \in Clients : tx[c].pc \in {"idle", "findProduct", "insertItem",
                                        "updateStock", "updateTotal", "commit", "rollback", "done"}

(***************************************************************************)
(* Properties                                                              *)
(***************************************************************************)
tables == <<products, orders, orderItems>>

\* the quantity of product p in the committed order items
CommittedQty(p) == SumQty(orderItems, p)

\* priceAtTime x quantity, in hundredths, summed over a list of order items
RECURSIVE SumAmount(_)
SumAmount(items) ==
    IF items = <<>> THEN 0
    ELSE Head(items).priceAtTime * Head(items).quantity + SumAmount(Tail(items))

Quiescent == \A c \in Clients : tx[c].pc \in {"idle", "done"}

\* request c returns in this step
Returns(c) == tx[c].pc \notin {"idle", "done"} /\ tx'[c].pc = "done"

\* one of the reads of request c found less stock than the item asks for
ShortRead(c) ==
    \E i \in DOMAIN tx[c].reads :
        tx[c].reads[i].found /\ tx[c].reads[i].stock < tx[c].items[i].quantity

\* one of the reads of request c found no product
MissingRead(c) == \E i \in DOMAIN tx[c].reads : ~tx[c].reads[i].found

\* C1: the committed order items of a product never sum to more than the
\* stock the product had before any checkout.
NoOversell ==
    \A p \in DOMAIN products : CommittedQty(p) <= InitProducts[p].stock

\* C2: a checkout that met an item asking for more than the stock it read
\* returns a failure, and no step of it, the return included, changes the
\* committed orders, order items or stock; its own uncommitted decrements
\* of earlier items are dropped.
AtomicOnInsufficientStock ==
    [][\A c \in Clients :
          /\ (tx'[c] # tx[c] /\ ShortRead(c)) =>
                 /\ tx'[c].pc = "done"
                 /\ ~tx'[c].response.success
                 /\ tx'[c].writes = NoWrites
                 /\ tx'[c].newItems = <<>>
                 /\ UNCHANGED tables
          /\ (tx'[c] # tx[c] /\ tx'[c].pc # "done") => UNCHANGED tables]_vars

\* C2 witness: the second item of a cart is short after the first item's
\* stock was decremented inside the transaction.
AtomicOnInsufficientStockWitness ==
    \E c \in Clients :
        /\ tx[c].pc = "rollback"
        /\ ShortRead(c)
        /\ Len(tx[c].reads) = 2
        /\ tx[c].writes # NoWrites
        /\ tx[c].newItems # <<>>

\* C3: no product's stock is negative, committed or written inside a
\* transaction.
StockNeverNegative ==
    /\ \A p \in DOMAIN products : products[p].stock >= 0
    /\ \A c \in Clients : \A p \in DOMAIN tx[c].writes : tx[c].writes[p] >= 0

\* C4: when no checkout is running, each product's stock is its initial
\* stock minus the committed quantities of that product.
StockConserved ==
    Quiescent =>
        \A p \in DOMAIN products :
            products[p].stock = InitProducts[p].stock - CommittedQty(p)

\* C5: an order's status changes only along the edges of the workflow.
Edges ==
    { <<"pending", "processing">>, <<"pending", "cancelled">>,
      <<"processing", "completed">>, <<"processing", "cancelled">> }

LegalTransitions ==
    [][\A o \in DOMAIN orders :
          orders'[o].status # orders[o].status =>
              <<orders[o].status, orders'[o].status>> \in Edges]_vars

\* C6: the total a checkout commits on its order header is the sum of
\* priceAtTime x quantity over the order items it commits.
TotalIsSumOfItems ==
    [][\A c \in Clients :
          (tx[c].pc = "commit" /\ tx'[c].pc = "done") =>
              LET total == orders'[tx[c].newOrder].totalAmount
              IN  /\ total.kind = "cents"
                  /\ total.cents = SumAmount(tx[c].newItems)]_vars

\* C7: a checkout with an empty items list returns a failure and changes
\* no table.
EmptyCartRejected ==
    [][\A c \in Clients :
          (Returns(c) /\ tx[c].items = <<>>) =>
              ~tx'[c].response.success /\ UNCHANGED tables]_vars

\* C8: a checkout with an item of quantity <= 0 returns a failure and
\* changes no table.
NonPositiveQuantityRejected ==
    [][\A c \in Clients :
          (Returns(c) /\ \E i \in DOMAIN tx[c].items : tx[c].items[i].quantity <= 0) =>
              ~tx'[c].response.success /\ UNCHANGED tables]_vars

PriceImmutable ==
    [][/\ \A i \in DOMAIN orderItems :
              i \in DOMAIN orderItems' /\ orderItems'[i] = orderItems[i]
       /\ \A o \in DOMAIN orders :
              o \in DOMAIN orders' /\ orders'[o].totalAmount = orders[o].totalAmount
       /\ orderItems' # orderItems =>
              \E c \in Clients :
                  tx[c].pc = "commit" /\ orderItems' = orderItems \o tx[c].newItems]_vars

\* C10 witness: a product's price was changed after an order item took its
\* snapshot.
PriceImmutableWitness ==
    /\ admin > 0
    /\ \E i \in DOMAIN orderItems :
           /\ orderItems[i].productId \in DOMAIN products
           /\ products[orderItems[i].productId].price # orderItems[i].priceAtTime

\* C11: a step that changes the status of an order changes the status of
\* that one order only: the products, the order items, every total, every
\* other order's status and the running checkouts stay as they are.
StatusFrame ==
    [][(\E o \in DOMAIN orders : orders'[o].status # orders[o].status) =>
          /\ UNCHANGED <<products, orderItems, nextOrderId, tx>>
          /\ DOMAIN orders' = DOMAIN orders
          /\ \A o \in DOMAIN orders : orders'[o].totalAmount = orders[o].totalAmount
          /\ Cardinality({o \in DOMAIN orders : orders'[o].status # orders[o].status}) = 1]_vars

\* C11 witness: an order is cancelled and the stock its item took is still
\* taken.
StatusFrameWitness ==
    \E i \in DOMAIN orderItems :
        /\ orders[orderItems[i].orderId].status = "cancelled"
        /\ orderItems[i].quantity > 0
        /\ orderItems[i].productId \in DOMAIN products
        /\ products[orderItems[i].productId].stock
               = InitProducts[orderItems[i].productId].stock - orderItems[i].quantity

\* the order items of order o
ItemsOf(o) == SelectSeq(orderItems, LAMBDA it : it.orderId = o)

\* C12: the total of every stored order is the sum of priceAtTime x
\* quantity over the order items stored for it.
TotalInvariant ==
    \A o \in DOMAIN orders :
        /\ orders[o].totalAmount.kind = "cents"
        /\ orders[o].totalAmount.cents = SumAmount(ItemsOf(o))

\* the same for the orders whose total was written without rounding drift
TotalInvariantOfExactTotals ==
    \A o \in DOMAIN orders :
        orders[o].totalAmount.kind = "cents" =>
            orders[o].totalAmount.cents = SumAmount(ItemsOf(o))

\* C16: every stored order item refers to a product that exists, and a
\* product row disappears only in the last statement of a deletion, after
\* the deletion removed the product's order items and while no stored order
\* item refers to it.
NoOrphanItems ==
    /\ [](\A i \in DOMAIN orderItems : orderItems[i].productId \in DOMAIN products)
    /\ [][DOMAIN products' # DOMAIN products =>
             /\ req.pc = "deleteProduct"
             /\ DOMAIN products' = DOMAIN products \ {req.id}
             /\ \A i \in DOMAIN orderItems : orderItems[i].productId # req.id]_vars

\* C16 witness: a checkout committed an order item of the product between
\* the deletion of the product's order items and the deletion of the
\* product, and the deletion of the product was refused.
NoOrphanItemsWitness ==
    /\ req.route = "delete"
    /\ req.code = 500
    /\ req.id \in DOMAIN products
    /\ \E i \in DOMAIN orderItems : orderItems[i].productId = req.id

AuthGate ==
    [][/\ (req.pc = "idle" /\ req' # req
             /\ ~(Len(req'.header) >= 2 /\ jwtVerify(req'.header[2])))
          => /\ req'.code = IF req'.header = <<>> THEN 401 ELSE 403
             /\ req'.pc = "idle"
             /\ UNCHANGED <<products, orders, orderItems, nextOrderId, tx, nextProductId>>
       /\ tx' # tx => UNCHANGED <<req, admin>>]_vars

\* a checkout has committed although the only administrator request was a
\* delete with an expired token, which was refused
AuthGateWitness ==
    /\ req.route = "delete"
    /\ req.header = <<"Bearer", "expired">>
    /\ req.code = 403
    /\ DOMAIN orders # {}
    /\ DOMAIN products = DOMAIN InitProducts

(***************************************************************************)
(* C15  Every successful answer of POST /api/orders carries the id of the  *)
(* order and its total, and the id is that of the order this call has      *)
(* committed.                                                              *)
(***************************************************************************)
SuccessCarriesIdAndTotal ==
    [][\A c \in Clients :
          (Returns(c) /\ tx'[c].response.success)
          => /\ {"orderId", "total"} \subseteq tx'[c].response.keys
             /\ tx'[c].response.orderId = tx[c].newOrder
             /\ DOMAIN orders' \ DOMAIN orders = {tx[c].newOrder}]_vars

(***************************************************************************)
(* C17  The quantity of every committed order item is at most the stock    *)
(* that the product's row held immediately before the item's UPDATE, the   *)
(* earlier UPDATEs of the same cart included.                              *)
(***************************************************************************)
ReservationBound ==
    [][\A c \in Clients :
          (tx[c].pc = "commit" /\ tx'[c].pc = "done")
          => \A i \in DOMAIN tx[c].newItems :
                 tx[c].before[i].found
                 => tx[c].newItems[i].quantity <= tx[c].before[i].stock]_vars

(***************************************************************************)
(* C19  The commit of a checkout makes visible one order with a fresh id   *)
(* and the status pending, and one order item per item of the cart, in the *)
(* cart's order, with the submitted product and quantity and the price     *)
(* that the transaction read for it; no other order changes.               *)
(***************************************************************************)
InitialOrderState ==
    [][\A c \in Clients :
          (tx[c].pc = "commit" /\ tx'[c].pc = "done")
          => LET id  == tx[c].newOrder
                 new == SubSeq(orderItems', Len(orderItems) + 1, Len(orderItems'))
             IN  /\ id \notin DOMAIN orders
                 /\ DOMAIN orders' = DOMAIN orders \cup {id}
                 /\ \A o \in DOMAIN orders : orders'[o] = orders[o]
                 /\ orders'[id].status = "pending"
                 /\ SubSeq(orderItems', 1, Len(orderItems)) = orderItems
                 /\ Len(new) = Len(tx[c].items)
                 /\ \A i \in DOMAIN new :
                        /\ new[i].orderId = id
                        /\ new[i].productId = tx[c].items[i].productId
                        /\ new[i].quantity = tx[c].items[i].quantity
                        /\ tx[c].reads[i].found
                        /\ new[i].priceAtTime = tx[c].reads[i].price]_vars

\* a checkout of two items has just committed
InitialOrderStateWitness ==
    \E c \in Clients :
        /\ tx[c].pc = "done"
        /\ tx[c].response.success
        /\ tx[c].response.orderId \in DOMAIN orders
        /\ orders[tx[c].response.orderId].status = "pending"
        /\ Len(ItemsOf(tx[c].response.orderId)) = 2

(***************************************************************************)
(* C14  A checkout in which any statement or the commit has failed returns *)
(* a failure and leaves every table as it was; the tables change in a step *)
(* of a checkout only at its commit, which returns success and makes       *)
(* visible the order with its computed total, all the items of the cart    *)
(* and all its stock updates at once.                                      *)
(***************************************************************************)
AllOrNothing ==
    [][\A c \in Clients :
          /\ (tx[c].pc = "rollback" /\ tx'[c] # tx[c])
             => /\ tx'[c].pc = "done"
                /\ ~tx'[c].response.success
                /\ UNCHANGED tables
          /\ (tx'[c] # tx[c] /\ tables' # tables)
             => /\ tx[c].pc = "commit"
                /\ tx'[c].response.success
                /\ tx[c].newOrder \notin DOMAIN orders
                /\ orders'[tx[c].newOrder].totalAmount = toString(tx[c].total)
                /\ Len(orderItems') = Len(orderItems) + Len(tx[c].items)
                /\ \A p \in DOMAIN tx[c].writes : products'[p].stock = tx[c].writes[p]]_vars

\* a checkout whose reads all passed the stock check was aborted after it
\* had inserted an item and updated a stock
AllOrNothingWitness ==
    \E c \in Clients :
        /\ tx[c].pc = "rollback"
        /\ tx[c].newItems # <<>>
        /\ DOMAIN tx[c].writes # {}
        /\ ~ShortRead(c)
        /\ ~MissingRead(c)

(***************************************************************************)
(* C20  Every started checkout eventually returns, also when two           *)
(* checkouts wait for each other's row locks; a return is either a success *)
(* whose commit made the whole order visible or a failure that left every  *)
(* table as it was.                                                        *)
(***************************************************************************)
CheckoutTerminates ==
    /\ \A c \in Clients : (tx[c].pc \notin {"idle", "done"}) ~> (tx[c].pc = "done")
    /\ [][\A c \in Clients :
             Returns(c)
             => \/ /\ tx'[c].response.success
                   /\ Len(orderItems') = Len(orderItems) + Len(tx[c].items)
                   /\ tx[c].newOrder \in DOMAIN orders'
                \/ /\ ~tx'[c].response.success
                   /\ UNCHANGED tables]_vars

\* two checkouts each hold the row lock that the other's UPDATE waits for
CheckoutTerminatesWitness ==
    \E c, d \in Clients : WaitsFor(c, d) /\ WaitsFor(d, c)

====
